---- MODULE Spec2Model ----
(***************************************************************************)
(* A model of Chess/ChessEngine.py: the GameState class (board, turn flag, *)
(* move log, cached king squares, checkMate/staleMate flags), its move     *)
(* generators and the legality filter getValidMoves, and the Move record.  *)
(*                                                                         *)
(* A piece is the pair <<colour, kind>> of the two characters of the       *)
(* source's two-character string: p[1] is the source's p[0] and p[2] is    *)
(* the source's p[1].  Rows and columns are the source's, 0..7.            *)
(***************************************************************************)
EXTENDS Integers, Sequences, FiniteSets, TLC

VARIABLES board, whiteToMove, moveLog, whiteKingLocation, blackKingLocation,
          checkMate, staleMate, returned, lastOp, raised

vars == <<board, whiteToMove, moveLog, whiteKingLocation, blackKingLocation,
          checkMate, staleMate, returned, lastOp, raised>>

\* ------------------------------------------------------------------ pieces

Empty == <<"-", "-">>

wp == <<"w", "p">>
wR == <<"w", "R">>
wN == <<"w", "N">>
wB == <<"w", "B">>
wQ == <<"w", "Q">>
wK == <<"w", "K">>
bp == <<"b", "p">>
bR == <<"b", "R">>
bN == <<"b", "N">>
bB == <<"b", "B">>
bQ == <<"b", "Q">>
bK == <<"b", "K">>

\* GameState.__init__: the rows of self.board, row 0 first.
InitRows ==
  << <<bR, bN, bB, bQ, bK, bB, bN, bR>>,
     <<bp, bp, bp, bp, bp, bp, bp, bp>>,
     <<Empty, Empty, Empty, Empty, Empty, Empty, Empty, Empty>>,
     <<Empty, Empty, Empty, Empty, Empty, Empty, Empty, Empty>>,
     <<Empty, Empty, Empty, Empty, Empty, Empty, Empty, Empty>>,
     <<Empty, Empty, Empty, Empty, Empty, Empty, Empty, Empty>>,
     <<wp, wp, wp, wp, wp, wp, wp, wp>>,
     <<wR, wN, wB, wQ, wK, wB, wN, wR>> >>

InitBoard == [r \in 0..7 |-> [c \in 0..7 |-> InitRows[r + 1][c + 1]]]

\* Python list indexing: a negative index counts from the end of the list.
PyIdx(i) == IF i < 0 THEN i + 8 ELSE i

\* self.board[r][c]
At(b, r, c) == b[PyIdx(r)][PyIdx(c)]

\* self.board[r][c] = v
SetAt(b, r, c, v) == [b EXCEPT ![PyIdx(r)][PyIdx(c)] = v]

\* The member of a one-element set.  {e(x) : x \in {v}} computes v once,
\* however often e uses it.
Only(S) == CHOOSE x \in S : TRUE

\* The elements of a list.
SeqRange(s) == UNION {{u[i] : i \in 1..Len(u)} : u \in {s}}

\* ------------------------------------------------------------------ Move

\* A Move whose moveID gives the start column and the end row the same weight.
MoveWeakID(startSq, endSq, b) ==
  [startRow |-> startSq[1], startCol |-> startSq[2],
   endRow |-> endSq[1], endCol |-> endSq[2],
   pieceMoved |-> At(b, startSq[1], startSq[2]),
   pieceCaptured |-> At(b, endSq[1], endSq[2]),
   moveID |-> startSq[1] * 100 + startSq[2] * 10 + endSq[1] * 10 + endSq[2]]

\* Move.__init__
Move(startSq, endSq, b) ==
  [startRow |-> startSq[1], startCol |-> startSq[2],
   endRow |-> endSq[1], endCol |-> endSq[2],
   pieceMoved |-> At(b, startSq[1], startSq[2]),
   pieceCaptured |-> At(b, endSq[1], endSq[2]),
   moveID |-> startSq[1] * 1000 + startSq[2] * 100 + endSq[1] * 10 + endSq[2]]

\* Move.__eq__
MoveEq(m1, m2) == m1.moveID = m2.moveID

\* ------------------------------------------------------------------ generators

\* getPawnmoves raises IndexError at self.board[r+1] when r+1 is past the
\* last row; self.board[r-1] with r = 0 is row -1, the last row, and does not.
PawnRaises(wtm, r) == ~wtm /\ r + 1 > 7

\* A pawn generator without the double step.
getPawnmovesNoDouble(b, wtm, r, c) ==
  IF wtm
  THEN (IF At(b, r - 1, c) = Empty
        THEN <<Move(<<r, c>>, <<r - 1, c>>, b)>> ELSE <<>>) \o
       (IF c - 1 >= 0 /\ At(b, r - 1, c - 1)[1] = "b"
        THEN <<Move(<<r, c>>, <<r - 1, c - 1>>, b)>> ELSE <<>>) \o
       (IF c + 1 <= 7 /\ At(b, r - 1, c + 1)[1] = "b"
        THEN <<Move(<<r, c>>, <<r - 1, c + 1>>, b)>> ELSE <<>>)
  ELSE (IF At(b, r + 1, c) = Empty
        THEN <<Move(<<r, c>>, <<r + 1, c>>, b)>> ELSE <<>>) \o
       (IF c - 1 >= 0 /\ At(b, r + 1, c - 1)[1] = "w"
        THEN <<Move(<<r, c>>, <<r + 1, c - 1>>, b)>> ELSE <<>>) \o
       (IF c + 1 <= 7 /\ At(b, r + 1, c + 1)[1] = "w"
        THEN <<Move(<<r, c>>, <<r + 1, c + 1>>, b)>> ELSE <<>>)

\* getPawnmoves, where it does not raise.
getPawnmoves(b, wtm, r, c) ==
  IF wtm
  THEN (IF At(b, r - 1, c) = Empty
        THEN <<Move(<<r, c>>, <<r - 1, c>>, b)>> \o
             (IF r = 6 /\ At(b, r - 2, c) = Empty
              THEN <<Move(<<r, c>>, <<r - 2, c>>, b)>> ELSE <<>>)
        ELSE <<>>) \o
       (IF c - 1 >= 0 /\ At(b, r - 1, c - 1)[1] = "b"
        THEN <<Move(<<r, c>>, <<r - 1, c - 1>>, b)>> ELSE <<>>) \o
       (IF c + 1 <= 7 /\ At(b, r - 1, c + 1)[1] = "b"
        THEN <<Move(<<r, c>>, <<r - 1, c + 1>>, b)>> ELSE <<>>)
  ELSE (IF At(b, r + 1, c) = Empty
        THEN <<Move(<<r, c>>, <<r + 1, c>>, b)>> \o
             (IF r = 1 /\ At(b, r + 2, c) = Empty
              THEN <<Move(<<r, c>>, <<r + 2, c>>, b)>> ELSE <<>>)
        ELSE <<>>) \o
       (IF c - 1 >= 0 /\ At(b, r + 1, c - 1)[1] = "w"
        THEN <<Move(<<r, c>>, <<r + 1, c - 1>>, b)>> ELSE <<>>) \o
       (IF c + 1 <= 7 /\ At(b, r + 1, c + 1)[1] = "w"
        THEN <<Move(<<r, c>>, <<r + 1, c + 1>>, b)>> ELSE <<>>)

\* 0 <= endrow < 8 and 0 <= endcol < 8
OnBoard(endrow, endcol) ==
  0 <= endrow /\ endrow < 8 /\ 0 <= endcol /\ endcol < 8

\* A ray that does not stop at an enemy piece: it captures and goes on.
RECURSIVE RayThroughEnemy(_, _, _, _, _, _)
RayThroughEnemy(b, enemyColor, r, c, d, i) ==
  IF i > 7 \/ ~OnBoard(r + d[1] * i, c + d[2] * i) THEN <<>>
  ELSE IF At(b, r + d[1] * i, c + d[2] * i)[1] \in {"-", enemyColor}
       THEN <<Move(<<r, c>>, <<r + d[1] * i, c + d[2] * i>>, b)>> \o
            RayThroughEnemy(b, enemyColor, r, c, d, i + 1)
       ELSE <<>>

\* The inner loop of getRookmoves / getBishopmoves: the ray from (r, c) in
\* direction d, from step i on.  An empty cell gives a move and the loop goes
\* on; an enemy cell gives a move and ends it; a friendly cell or the edge of
\* the board ends it.
RECURSIVE Ray(_, _, _, _, _, _)
Ray(b, enemyColor, r, c, d, i) ==
  IF i > 7 \/ ~OnBoard(r + d[1] * i, c + d[2] * i) THEN <<>>
  ELSE IF At(b, r + d[1] * i, c + d[2] * i) = Empty
       THEN <<Move(<<r, c>>, <<r + d[1] * i, c + d[2] * i>>, b)>> \o
            Ray(b, enemyColor, r, c, d, i + 1)
       ELSE IF At(b, r + d[1] * i, c + d[2] * i)[1] = enemyColor
            THEN <<Move(<<r, c>>, <<r + d[1] * i, c + d[2] * i>>, b)>>
            ELSE <<>>

RookDirections == << <<-1, 0>>, <<0, -1>>, <<1, 0>>, <<0, 1>> >>

getRookmoves(b, wtm, r, c) ==
  LET enemyColor == IF wtm THEN "b" ELSE "w"
  IN (Ray(b, enemyColor, r, c, RookDirections[1], 1) \o
      Ray(b, enemyColor, r, c, RookDirections[2], 1)) \o
     (Ray(b, enemyColor, r, c, RookDirections[3], 1) \o
      Ray(b, enemyColor, r, c, RookDirections[4], 1))

BishopDirections == << <<-1, -1>>, <<-1, 1>>, <<1, -1>>, <<1, 1>> >>

getBishopmoves(b, wtm, r, c) ==
  LET enemyColor == IF wtm THEN "b" ELSE "w"
  IN (Ray(b, enemyColor, r, c, BishopDirections[1], 1) \o
      Ray(b, enemyColor, r, c, BishopDirections[2], 1)) \o
     (Ray(b, enemyColor, r, c, BishopDirections[3], 1) \o
      Ray(b, enemyColor, r, c, BishopDirections[4], 1))

getQueenmoves(b, wtm, r, c) ==
  getRookmoves(b, wtm, r, c) \o getBishopmoves(b, wtm, r, c)

\* An iteration of the knight / king loop without the test of the colour of
\* the destination.
StepOntoAnything(b, allyColor, r, c, m) ==
  IF OnBoard(r + m[1], c + m[2])
  THEN <<Move(<<r, c>>, <<r + m[1], c + m[2]>>, b)>> ELSE <<>>

\* One iteration of the loop of getKnightmoves / getKingmoves: the offset m.
Step(b, allyColor, r, c, m) ==
  IF OnBoard(r + m[1], c + m[2]) /\ At(b, r + m[1], c + m[2])[1] # allyColor
  THEN <<Move(<<r, c>>, <<r + m[1], c + m[2]>>, b)>> ELSE <<>>

\* The loop of getKnightmoves / getKingmoves over its eight offsets, in order.
Steps(b, allyColor, r, c, offsets) ==
  ((Step(b, allyColor, r, c, offsets[1]) \o Step(b, allyColor, r, c, offsets[2])) \o
   (Step(b, allyColor, r, c, offsets[3]) \o Step(b, allyColor, r, c, offsets[4]))) \o
  ((Step(b, allyColor, r, c, offsets[5]) \o Step(b, allyColor, r, c, offsets[6])) \o
   (Step(b, allyColor, r, c, offsets[7]) \o Step(b, allyColor, r, c, offsets[8])))

knightmoves == << <<-2, -1>>, <<-2, 1>>, <<-1, -2>>, <<-1, 2>>,
                  <<1, -2>>, <<1, 2>>, <<2, -1>>, <<2, 1>> >>

getKnightmoves(b, wtm, r, c) ==
  Steps(b, IF wtm THEN "w" ELSE "b", r, c, knightmoves)

kingmoves == << <<-1, -1>>, <<-1, 0>>, <<-1, 1>>, <<0, -1>>,
                <<0, 1>>, <<1, -1>>, <<1, 0>>, <<1, 1>> >>

getKingmoves(b, wtm, r, c) ==
  Steps(b, IF wtm THEN "w" ELSE "b", r, c, kingmoves)

\* self.moveFunctions[piece](r, c, moves)
moveFunctions(piece, b, wtm, r, c) ==
  CASE piece = "p" -> getPawnmoves(b, wtm, r, c)
    [] piece = "R" -> getRookmoves(b, wtm, r, c)
    [] piece = "N" -> getKnightmoves(b, wtm, r, c)
    [] piece = "B" -> getBishopmoves(b, wtm, r, c)
    [] piece = "Q" -> getQueenmoves(b, wtm, r, c)
    [] piece = "K" -> getKingmoves(b, wtm, r, c)

\* The cells getAllPossibleMoves dispatches on: those of the side to move.
OwnCell(b, wtm, r, c) ==
  LET turn == b[r][c][1]
  IN (turn = "w" /\ wtm) \/ (turn = "b" /\ ~wtm)

\* getAllPossibleMoves raises IndexError exactly when one of its
\* getPawnmoves calls does.
Raises(b, wtm) ==
  \E r \in 0..7, c \in 0..7 :
     OwnCell(b, wtm, r, c) /\ b[r][c][2] = "p" /\ PawnRaises(wtm, r)

\* The body of the two loops of getAllPossibleMoves for the cell (r, c).
ScanCell(b, wtm, r, c) ==
  IF OwnCell(b, wtm, r, c)
  THEN moveFunctions(b[r][c][2], b, wtm, r, c) ELSE <<>>

\* The two loops of getAllPossibleMoves over the cells lo..hi, counted row by
\* row (cell k is row k \div 8, column k % 8): the first half of the cells,
\* then the second half.
RECURSIVE ScanCells(_, _, _, _)
ScanCells(b, wtm, lo, hi) ==
  IF lo = hi THEN ScanCell(b, wtm, lo \div 8, lo % 8)
  ELSE ScanCells(b, wtm, lo, (lo + hi) \div 2) \o
       ScanCells(b, wtm, (lo + hi) \div 2 + 1, hi)

\* getAllPossibleMoves, where it does not raise.
getAllPossibleMoves(b, wtm) ==
  Only({ScanCells(x, w, 0, 63) : x \in {b}, w \in {wtm}})

\* ------------------------------------------------------------------ GameState

\* The fields of the GameState object, as one value.
GS == [board |-> board, whiteToMove |-> whiteToMove, moveLog |-> moveLog,
       whiteKingLocation |-> whiteKingLocation,
       blackKingLocation |-> blackKingLocation,
       checkMate |-> checkMate, staleMate |-> staleMate]

\* GameState.__init__
InitGS == [board |-> InitBoard, whiteToMove |-> TRUE, moveLog |-> <<>>,
           whiteKingLocation |-> <<7, 4>>, blackKingLocation |-> <<0, 4>>,
           checkMate |-> FALSE, staleMate |-> FALSE]

\* makeMove.  The source compares move.pieceMoved[1], one character, with
\* the two-character strings 'wK' and 'bK'.
makeMove(gs, move) ==
  [gs EXCEPT
     !.board = SetAt(SetAt(@, move.startRow, move.startCol, Empty),
                     move.endRow, move.endCol, move.pieceMoved),
     !.moveLog = Append(@, move),
     !.whiteToMove = ~@,
     !.whiteKingLocation =
        IF move.pieceMoved[2] = "wK" THEN <<move.endRow, move.endCol>> ELSE @,
     !.blackKingLocation =
        IF move.pieceMoved[2] # "wK" /\ move.pieceMoved[2] = "bK"
        THEN <<move.endRow, move.endCol>> ELSE @]

\* An undo that puts the moved piece back but leaves the destination square
\* empty instead of restoring the captured piece.
undoMoveForgetsCapture(gs) ==
  IF Len(gs.moveLog) # 0
  THEN LET move == gs.moveLog[Len(gs.moveLog)]
       IN [gs EXCEPT
             !.moveLog = SubSeq(@, 1, Len(@) - 1),
             !.board = SetAt(SetAt(@, move.startRow, move.startCol, move.pieceMoved),
                             move.endRow, move.endCol, Empty),
             !.whiteToMove = ~@]
  ELSE gs

\* An undo that flips the turn flag even when the move log is empty.
undoMoveFlipsOnEmpty(gs) ==
  IF Len(gs.moveLog) # 0
  THEN LET move == gs.moveLog[Len(gs.moveLog)]
       IN [gs EXCEPT
             !.moveLog = SubSeq(@, 1, Len(@) - 1),
             !.board = SetAt(SetAt(@, move.startRow, move.startCol, move.pieceMoved),
                             move.endRow, move.endCol, move.pieceCaptured),
             !.whiteToMove = ~@]
  ELSE [gs EXCEPT !.whiteToMove = ~@]

\* undoMove
undoMove(gs) ==
  IF Len(gs.moveLog) # 0
  THEN LET move == gs.moveLog[Len(gs.moveLog)]
       IN [gs EXCEPT
             !.moveLog = SubSeq(@, 1, Len(@) - 1),
             !.board = SetAt(SetAt(@, move.startRow, move.startCol, move.pieceMoved),
                             move.endRow, move.endCol, move.pieceCaptured),
             !.whiteToMove = ~@,
             !.whiteKingLocation =
                IF move.pieceMoved[2] = "wK"
                THEN <<move.startRow, move.startCol>> ELSE @,
             !.blackKingLocation =
                IF move.pieceMoved[2] # "wK" /\ move.pieceMoved[2] = "bK"
                THEN <<move.startRow, move.startCol>> ELSE @]
  ELSE gs

\* self.whiteToMove = not self.whiteToMove
flip(gs) == [gs EXCEPT !.whiteToMove = ~@]

\* squareUnderAttack raises when its getAllPossibleMoves call does; the turn
\* flag is then left flipped.
squareUnderAttackRaises(gs) == Raises(gs.board, ~gs.whiteToMove)

\* squareUnderAttack: the value returned.
squareUnderAttack(gs, r, c) ==
  \E g \in {flip(gs)}, sq \in {<<r, c>>} :
     \E move \in SeqRange(getAllPossibleMoves(g.board, g.whiteToMove)) :
        move.endRow = sq[1] /\ move.endCol = sq[2]

\* squareUnderAttack: the object after the call (two flips of the turn flag).
squareUnderAttackPost(gs) == flip(flip(gs))

\* inCheck: the value returned.
inCheck(gs) ==
  IF gs.whiteToMove
  THEN squareUnderAttack(gs, gs.whiteKingLocation[1], gs.whiteKingLocation[2])
  ELSE squareUnderAttack(gs, gs.blackKingLocation[1], gs.blackKingLocation[2])

\* A removal by position that has lost its place: it drops the last element
\* of the list, whichever element was tested.
RemoveLast(moves, x) == SubSeq(moves, 1, Len(moves) - 1)

\* list.remove(x): drops the first element equal (Move.__eq__) to x.
Remove(moves, x) ==
  LET first == CHOOSE i \in 1..Len(moves) :
                  /\ MoveEq(moves[i], x)
                  /\ \A j \in 1..(i - 1) : ~MoveEq(moves[j], x)
  IN SubSeq(moves, 1, first - 1) \o SubSeq(moves, first + 1, Len(moves))

\* An iteration of the loop of getValidMoves that does not undo the move it
\* has simulated.
FilterStepNoUndo(res, i) ==
  IF res.raised THEN res
  ELSE Only({IF squareUnderAttackRaises(g1)
              THEN [gs |-> flip(g1), moves |-> res.moves, raised |-> TRUE]
              ELSE [gs |-> flip(squareUnderAttackPost(g1)),
                    moves |-> IF inCheck(g1) THEN Remove(res.moves, res.moves[i])
                              ELSE res.moves,
                    raised |-> FALSE] :
             g1 \in {flip(makeMove(res.gs, res.moves[i]))}})

\* One iteration of the loop of getValidMoves, at the (1-based) index i of the
\* list, from res: the object, the list so far, and whether IndexError has
\* been raised, which ends the loop.
FilterStep(res, i) ==
  IF res.raised THEN res
  ELSE Only({IF squareUnderAttackRaises(g1)
              THEN [gs |-> flip(g1), moves |-> res.moves, raised |-> TRUE]
              ELSE [gs |-> undoMove(flip(squareUnderAttackPost(g1))),
                    moves |-> IF inCheck(g1) THEN Remove(res.moves, res.moves[i])
                              ELSE res.moves,
                    raised |-> FALSE] :
             g1 \in {flip(makeMove(res.gs, res.moves[i]))}})

\* The iterations hi, hi-1, ..., lo of the loop of getValidMoves, in that
\* order: the upper half of the indices and then, unless that raised, the
\* lower half.
RECURSIVE FilterLoop(_, _, _)
FilterLoop(res, hi, lo) ==
  IF hi < lo THEN res
  ELSE IF hi = lo THEN FilterStep(res, hi)
       ELSE Only({IF upper.raised THEN upper
                  ELSE FilterLoop(upper, (hi + lo) \div 2, lo) :
                  upper \in {FilterLoop(res, hi, (hi + lo) \div 2 + 1)}})

\* The end of getValidMoves: the flags.
SetFlags(res) ==
  IF res.raised THEN res
  ELSE IF Len(res.moves) = 0
       THEN IF squareUnderAttackRaises(res.gs)
            THEN [res EXCEPT !.gs = flip(@), !.raised = TRUE]
            ELSE IF inCheck(res.gs)
                 THEN [res EXCEPT !.gs.checkMate = TRUE]
                 ELSE [res EXCEPT !.gs.staleMate = TRUE]
       ELSE [res EXCEPT !.gs.checkMate = FALSE, !.gs.staleMate = FALSE]

\* getValidMoves: the object afterwards, the list returned, and whether the
\* call raised IndexError instead of returning.
getValidMoves(gs) ==
  IF Raises(gs.board, gs.whiteToMove)
  THEN [gs |-> gs, moves |-> <<>>, raised |-> TRUE]
  ELSE Only({SetFlags(looped) :
             looped \in {FilterLoop(start, Len(start.moves), 1) :
                          start \in {[gs |-> gs,
                                      moves |-> getAllPossibleMoves(gs.board,
                                                                    gs.whiteToMove),
                                      raised |-> FALSE]}}})

\* ------------------------------------------------------------------ the caller

\* The longest game played.
MaxPly == 52

\* Scripted games, each move as <<startRow, startCol, endRow, endCol>>.
Book ==
  { \* 1.f3 e5 2.g4 Qh4 3.Kf2 Qxf2
    << <<6,5,5,5>>, <<1,4,3,4>>, <<6,6,4,6>>, <<0,3,4,7>>, <<7,4,6,5>>, <<4,7,6,5>> >>,
    \* 1.f3 e5 2.Kf2 Qh4 3.a3 Qxf2
    << <<6,5,5,5>>, <<1,4,3,4>>, <<7,4,6,5>>, <<0,3,4,7>>, <<6,0,5,0>>, <<4,7,6,5>> >>,
    \* 1.h3 b5 2.h4 b4 3.a3 bxa3 4.g3 axb2 5.g4 bxa1
    << <<6,7,5,7>>, <<1,1,3,1>>, <<5,7,4,7>>, <<3,1,4,1>>, <<6,0,5,0>>, <<4,1,5,0>>,
       <<6,6,5,6>>, <<5,0,6,1>>, <<5,6,4,6>>, <<6,1,7,0>> >>,
    \* 1.a4 b5 2.axb5 a6 3.bxa6 h6 4.a7 h5 5.Nc3 h4 6.axb8 h3 7.b8-b9 (row -1)
    << <<6,0,4,0>>, <<1,1,3,1>>, <<4,0,3,1>>, <<1,0,2,0>>, <<3,1,2,0>>, <<1,7,2,7>>,
       <<2,0,1,0>>, <<2,7,3,7>>, <<7,1,5,2>>, <<3,7,4,7>>, <<1,0,0,1>>, <<4,7,5,7>>,
       <<0,1,-1,1>> >>,
    \* a game that ends with white, its king captured, left without a move
    << <<6,5,5,5>>, <<1,3,3,3>>, <<6,0,5,0>>, <<0,2,5,7>>, <<6,6,5,7>>, <<3,3,4,3>>,
       <<6,1,4,1>>, <<1,5,3,5>>, <<4,1,3,1>>, <<3,5,4,5>>, <<3,1,2,1>>, <<1,0,2,1>>,
       <<7,5,6,6>>, <<0,0,4,0>>, <<6,6,7,5>>, <<0,3,3,3>>, <<7,0,6,0>>, <<3,3,6,0>>,
       <<7,5,6,6>>, <<6,0,7,1>>, <<6,6,7,5>>, <<7,1,7,2>>, <<7,5,6,6>>, <<4,0,5,0>>,
       <<6,6,7,5>>, <<5,0,5,4>>, <<6,3,5,3>>, <<7,2,7,3>>, <<7,4,7,3>>, <<1,2,3,2>>,
       <<6,2,4,2>>, <<0,6,2,7>>, <<7,3,7,4>>, <<2,7,3,5>>, <<7,4,6,5>>, <<3,5,4,7>>,
       <<6,5,6,6>>, <<4,7,6,6>>, <<7,5,6,6>>, <<1,7,3,7>>, <<6,6,7,5>>, <<3,7,4,7>>,
       <<7,5,6,6>>, <<0,7,3,7>>, <<6,6,7,5>>, <<3,7,3,6>>, <<7,5,6,6>>, <<3,6,6,6>> >>,
    \* 1.h4 e6 2.h5 Qg5 3.h6 Qxg2 4.hxg7 Qxg1 5.gxh8 a6: a white pawn on row 0
    \* beside a black queen on row 7
    << <<6,7,4,7>>, <<1,4,2,4>>, <<4,7,3,7>>, <<0,3,3,6>>, <<3,7,2,7>>, <<3,6,6,6>>,
       <<2,7,1,6>>, <<6,6,7,6>>, <<1,6,0,7>>, <<1,0,2,0>> >>,
    \* a game that ends with a black pawn capturing on row 7 and white, its
    \* king captured, left without a move
    << <<6,5,5,5>>, <<1,3,3,3>>, <<6,0,5,0>>, <<0,2,5,7>>, <<6,6,5,7>>, <<3,3,4,3>>,
       <<6,1,4,1>>, <<1,5,3,5>>, <<4,1,3,1>>, <<3,5,4,5>>, <<3,1,2,1>>, <<1,0,2,1>>,
       <<7,5,6,6>>, <<0,0,4,0>>, <<6,6,7,5>>, <<0,3,3,3>>, <<7,0,6,0>>, <<3,3,6,0>>,
       <<7,5,6,6>>, <<6,0,7,1>>, <<6,6,7,5>>, <<7,1,7,2>>, <<7,5,6,6>>, <<4,0,5,0>>,
       <<6,6,7,5>>, <<5,0,5,4>>, <<6,3,5,3>>, <<7,2,7,3>>, <<7,4,7,3>>, <<0,6,2,7>>,
       <<7,3,7,4>>, <<2,7,3,5>>, <<7,4,6,5>>, <<3,5,4,7>>, <<6,5,6,6>>, <<4,7,6,6>>,
       <<7,5,6,6>>, <<1,7,3,7>>, <<6,6,7,5>>, <<3,7,4,7>>, <<7,5,6,6>>, <<1,6,3,6>>,
       <<6,6,7,5>>, <<3,6,4,6>>, <<7,5,6,6>>, <<4,6,5,6>>, <<6,6,7,5>>, <<5,6,6,6>>,
       <<6,2,5,2>>, <<1,2,3,2>>, <<5,2,4,2>>, <<6,6,7,5>> >> }

Coords(move) == <<move.startRow, move.startCol, move.endRow, move.endCol>>

\* The moves the caller may choose after the moves of log: any first move,
\* then the next move of a game of Book that has gone as log has.
Chosen(log) ==
  IF log = <<>>
  THEN {<<sr, sc, er, ec>> : sr \in 0..7, sc \in 0..7, er \in -1..7, ec \in 0..7}
  ELSE {g[Len(log) + 1] :
          g \in {h \in Book : /\ Len(h) > Len(log)
                              /\ \A i \in 1..Len(log) : Coords(log[i]) = h[i]}}

\* ------------------------------------------------------------------ the machine

\* The variables after a call that leaves the object as gs.
Becomes(gs) ==
  /\ board' = gs.board
  /\ whiteToMove' = gs.whiteToMove
  /\ moveLog' = gs.moveLog
  /\ whiteKingLocation' = gs.whiteKingLocation
  /\ blackKingLocation' = gs.blackKingLocation
  /\ checkMate' = gs.checkMate
  /\ staleMate' = gs.staleMate

Init ==
  /\ board = InitGS.board
  /\ whiteToMove = InitGS.whiteToMove
  /\ moveLog = InitGS.moveLog
  /\ whiteKingLocation = InitGS.whiteKingLocation
  /\ blackKingLocation = InitGS.blackKingLocation
  /\ checkMate = InitGS.checkMate
  /\ staleMate = InitGS.staleMate
  /\ returned = <<>>
  /\ lastOp = "init"
  /\ raised = FALSE

\* A call of getValidMoves.  returned is the list it returns; raised says that
\* it ended in an uncaught IndexError instead, which ends the program.
GetValidMoves ==
  /\ ~raised
  /\ \E res \in {getValidMoves(GS)} :
        /\ Becomes(res.gs)
        /\ returned' = (IF res.raised THEN <<>> ELSE res.moves)
        /\ raised' = res.raised
  /\ lastOp' = "getValidMoves"

\* The list getValidMoves returns for the current position (none if it raises).
ValidNow ==
  Only({IF res.raised THEN <<>> ELSE res.moves : res \in {getValidMoves(GS)}})

\* A call of makeMove with a move of the list getValidMoves returns for the
\* current position.  makeMove returns nothing.
MakeMove ==
  /\ ~raised
  /\ Len(moveLog) < MaxPly
  /\ \E m \in SeqRange(ValidNow) :
        /\ Coords(m) \in Chosen(moveLog)
        /\ Becomes(makeMove(GS, m))
  /\ returned' = <<>>
  /\ lastOp' = "makeMove"
  /\ UNCHANGED raised

\* A call of undoMove.  undoMove returns nothing.  lastOp tells a call that
\* found the move log empty from one that undid a move.
UndoMove ==
  /\ ~raised
  /\ \E gs \in {undoMove(GS)} : Becomes(gs)
  /\ returned' = <<>>
  /\ lastOp' = (IF moveLog = <<>> THEN "undoMoveEmpty" ELSE "undoMove")
  /\ UNCHANGED raised

Next == GetValidMoves \/ MakeMove \/ UndoMove

Spec == Init /\ [][Next]_vars

\* ------------------------------------------------------------------ properties

\* The squares of b that hold the piece king.
KingSquares(b, king) == {sq \in (0..7) \X (0..7) : b[sq[1]][sq[2]] = king}

\* sq is the destination of a pseudo-legal move of the side attackerIsWhite.
AttackedBy(b, attackerIsWhite, sq) ==
  \E m \in SeqRange(getAllPossibleMoves(b, attackerIsWhite)) :
     m.endRow = sq[1] /\ m.endCol = sq[2]

\* The king of the side to move in gs.
OwnKing(gs) == IF gs.whiteToMove THEN wK ELSE bK

\* The king of the side to move stands on the board and is attacked there.
ReallyInCheck(gs) ==
  \E sq \in KingSquares(gs.board, OwnKing(gs)) :
     AttackedBy(gs.board, ~gs.whiteToMove, sq)

\* Playing m in gs leaves no square that holds the mover's king attacked.
ReallyLegal(gs, m) ==
  \E g \in {makeMove(gs, m)} :
     /\ ~Raises(g.board, g.whiteToMove)
     /\ \A sq \in KingSquares(g.board, OwnKing(gs)) :
           ~AttackedBy(g.board, g.whiteToMove, sq)

\* C1: after a move of the list returned by getValidMoves has been made, the
\* square on which the mover's king stands is not the destination of any
\* pseudo-legal move of the opponent.
C1_MoverKingNotAttacked ==
  (lastOp = "makeMove" /\ ~raised /\ ~Raises(board, whiteToMove)) =>
     \A sq \in KingSquares(board, IF whiteToMove THEN bK ELSE wK) :
        ~AttackedBy(board, whiteToMove, sq)

\* C2: after any sequence of makeMove and undoMove calls, whiteKingLocation is
\* exactly the square holding the white king and blackKingLocation exactly the
\* square holding the black king.
C2_KingCacheInSync ==
  ~raised =>
     /\ KingSquares(board, wK) = {whiteKingLocation}
     /\ KingSquares(board, bK) = {blackKingLocation}

\* C3: for every move generated for the current position, makeMove followed
\* by undoMove restores the board, the turn flag, both cached king squares and
\* the move log (and leaves the flags alone).
C3_MakeUndoRoundTrip ==
  (~raised /\ ~Raises(board, whiteToMove)) =>
     \A m \in SeqRange(getAllPossibleMoves(board, whiteToMove)) :
        undoMove(makeMove(GS, m)) = GS

\* C3 witness: a move has been made and undone, and the moves generated for
\* the position include a capture and a king move.
C3_Witness ==
  /\ lastOp = "undoMove" /\ Len(moveLog) > 0 /\ ~Raises(board, whiteToMove)
  /\ \E m \in SeqRange(getAllPossibleMoves(board, whiteToMove)) :
        m.pieceCaptured # Empty
  /\ \E m \in SeqRange(getAllPossibleMoves(board, whiteToMove)) :
        m.pieceMoved[2] = "K"

\* C4: every pseudo-legal move of the side to move that does not leave the
\* square holding the mover's king attacked is in the list getValidMoves
\* returns.
C4_EveryLegalMoveReturned ==
  (lastOp = "getValidMoves" /\ ~raised /\ KingSquares(board, OwnKing(GS)) # {}) =>
     \A m \in SeqRange(getAllPossibleMoves(board, whiteToMove)) :
        ReallyLegal(GS, m) => m \in SeqRange(returned)

\* C5: after getValidMoves returns, if the king of the side to move is
\* attacked where it stands and no pseudo-legal move is legal, the list is
\* empty and checkMate is set; if it is not attacked and no pseudo-legal move
\* is legal, the list is empty and staleMate is set.
C5_TerminalFlags ==
  (lastOp = "getValidMoves" /\ ~raised /\ KingSquares(board, OwnKing(GS)) # {}
     /\ ~Raises(board, ~whiteToMove)
     /\ \A m \in SeqRange(getAllPossibleMoves(board, whiteToMove)) :
           ~ReallyLegal(GS, m)) =>
     /\ returned = <<>>
     /\ ReallyInCheck(GS) => checkMate
     /\ ~ReallyInCheck(GS) => staleMate

\* C6: checkMate and staleMate are never both true.
C6_FlagsExclusive == ~(checkMate /\ staleMate)

\* C7: whenever checkMate or staleMate is true, the last call was a
\* getValidMoves that returned the empty list; so both are false right after
\* any makeMove or undoMove.
C7_FlagsOnlyAfterEmptyList ==
  (checkMate \/ staleMate) =>
     (lastOp = "getValidMoves" /\ ~raised /\ returned = <<>>)

\* C8: the board holds exactly one white king and exactly one black king, and
\* no move of a list returned by getValidMoves captures a king.
C8_OneKingEach ==
  ~raised =>
     /\ Cardinality(KingSquares(board, wK)) = 1
     /\ Cardinality(KingSquares(board, bK)) = 1
     /\ lastOp = "getValidMoves" =>
           \A m \in SeqRange(returned) : m.pieceCaptured[2] # "K"

\* C9: move generation completes without a fault, for either side, and every
\* generated move has its origin and destination rows and columns in 0..7.
C9_GenerationTotalOnBoard ==
  /\ ~raised
  /\ \A side \in BOOLEAN :
        /\ ~Raises(board, side)
        /\ \A m \in SeqRange(getAllPossibleMoves(board, side)) :
              {m.startRow, m.startCol, m.endRow, m.endCol} \subseteq 0..7

\* C10: inCheck returns true exactly when the square on which the king of the
\* side to move stands is the destination of a pseudo-legal move of the
\* opponent.
C10_InCheckIsReal ==
  (~raised /\ ~squareUnderAttackRaises(GS) /\ KingSquares(board, OwnKing(GS)) # {}) =>
     (inCheck(GS) <=> ReallyInCheck(GS))

\* C11: in the starting position with white to move getValidMoves returns
\* exactly 20 moves, a single and a double step for each of the eight pawns
\* and four knight moves, and sets neither checkMate nor staleMate.
C11_TwentyOpeningMoves ==
  (lastOp = "getValidMoves" /\ ~raised /\ board = InitBoard /\ whiteToMove) =>
     /\ Len(returned) = 20
     /\ {Coords(m) : m \in SeqRange(returned)} =
           {<<6, c, 5, c>> : c \in 0..7} \cup {<<6, c, 4, c>> : c \in 0..7} \cup
           {<<7, 1, 5, 0>>, <<7, 1, 5, 2>>, <<7, 6, 5, 5>>, <<7, 6, 5, 7>>}
     /\ ~checkMate /\ ~staleMate

\* C11 witness: getValidMoves has just returned in the starting position.
C11_Witness ==
  /\ lastOp = "getValidMoves" /\ ~raised /\ board = InitBoard /\ whiteToMove
  /\ Len(returned) = 20

\* C12: undoMove on an empty move log changes nothing (board, turn flag,
\* cached king squares, log and flags), so undoing more often than moves
\* were made leaves the starting board, white to move, the starting king
\* squares and the empty log; the length of the log is never negative.
C12_UndoOnEmptyIsNoOp ==
  /\ (moveLog = <<>> /\ ~raised) => undoMove(GS) = GS
  /\ lastOp = "undoMoveEmpty" =>
        /\ moveLog = <<>> /\ board = InitBoard /\ whiteToMove
        /\ whiteKingLocation = <<7, 4>> /\ blackKingLocation = <<0, 4>>
  /\ Len(moveLog) >= 0

\* C12 witness: a game was played until getValidMoves set checkMate, every
\* move was undone, and undoMove was called once more.
C12_Witness ==
  lastOp = "undoMoveEmpty" /\ checkMate /\ moveLog = <<>>

\* The cells (r, c) that hold a pawn of the side wtm whose getPawnmoves call
\* does not raise.
PawnsOf(b, wtm) ==
  {sq \in (0..7) \X (0..7) :
     b[sq[1]][sq[2]] = (IF wtm THEN wp ELSE bp) /\ ~PawnRaises(wtm, sq[1])}

\* C13: for every pawn of the side to move, the double step is generated
\* exactly when the pawn is on its starting row (6 for white, 1 for black)
\* and the two cells in front of it are empty, and a diagonal move is
\* generated exactly when its target is on the board and holds an enemy
\* piece.
C13_PawnMoves ==
  ~raised =>
     \A sq \in PawnsOf(board, whiteToMove) :
        \E ms \in {SeqRange(getPawnmoves(board, whiteToMove, sq[1], sq[2]))},
           dir \in {IF whiteToMove THEN -1 ELSE 1} :
           /\ (\E m \in ms : m.endRow = sq[1] + 2 * dir /\ m.endCol = sq[2])
                 <=> /\ sq[1] = (IF whiteToMove THEN 6 ELSE 1)
                     /\ board[sq[1] + dir][sq[2]] = Empty
                     /\ board[sq[1] + 2 * dir][sq[2]] = Empty
           /\ \A dc \in {-1, 1} :
                 (\E m \in ms : m.endRow = sq[1] + dir /\ m.endCol = sq[2] + dc)
                    <=> /\ OnBoard(sq[1] + dir, sq[2] + dc)
                        /\ board[sq[1] + dir][sq[2] + dc][1] =
                              (IF whiteToMove THEN "b" ELSE "w")

\* The ray directions of a sliding piece.
DirectionsOf(kind) ==
  CASE kind = "R" -> SeqRange(RookDirections)
    [] kind = "B" -> SeqRange(BishopDirections)
    [] kind = "Q" -> SeqRange(RookDirections) \cup SeqRange(BishopDirections)

\* The cells (r, c) that hold a rook, bishop or queen of the side wtm.
SlidersOf(b, wtm) ==
  {sq \in (0..7) \X (0..7) :
     /\ b[sq[1]][sq[2]][1] = (IF wtm THEN "w" ELSE "b")
     /\ b[sq[1]][sq[2]][2] \in {"R", "B", "Q"}}

\* The cells from sq in direction d: the empty cells before the first
\* occupied one, and that one if it holds a piece of colour enemy.
RayCells(b, enemy, sq, d) ==
  {<<sq[1] + d[1] * i, sq[2] + d[2] * i>> : i \in
     {i \in 1..7 :
        /\ OnBoard(sq[1] + d[1] * i, sq[2] + d[2] * i)
        /\ \A j \in 1..(i - 1) : b[sq[1] + d[1] * j][sq[2] + d[2] * j] = Empty
        /\ b[sq[1] + d[1] * i][sq[2] + d[2] * i][1] \in {"-", enemy}}}

\* C14: for every rook, bishop or queen of the side to move, the moves
\* generated for it start on its cell, are as many as their destinations, and
\* their destinations are, along each of its directions, exactly the empty
\* cells before the first occupied cell plus that cell if it holds an enemy
\* piece, and nothing else.
C14_RaysStopAtFirstPiece ==
  \A sq \in SlidersOf(board, whiteToMove) :
     \E ms \in {moveFunctions(board[sq[1]][sq[2]][2], board, whiteToMove,
                              sq[1], sq[2])},
        enemy \in {IF whiteToMove THEN "b" ELSE "w"} :
        /\ \A m \in SeqRange(ms) : <<m.startRow, m.startCol>> = sq
        /\ Cardinality({<<m.endRow, m.endCol>> : m \in SeqRange(ms)}) = Len(ms)
        /\ {<<m.endRow, m.endCol>> : m \in SeqRange(ms)} =
              UNION {RayCells(board, enemy, sq, d) :
                       d \in DirectionsOf(board[sq[1]][sq[2]][2])}
        /\ \A d \in DirectionsOf(board[sq[1]][sq[2]][2]) :
              {<<m.endRow, m.endCol>> : m \in
                 {m \in SeqRange(ms) :
                    \E i \in 1..7 : /\ m.endRow = sq[1] + d[1] * i
                                    /\ m.endCol = sq[2] + d[2] * i}} =
              RayCells(board, enemy, sq, d)

\* C14 witness: moves have been made and a sliding piece of the side to move
\* has at least three generated moves, one of them a capture.
C14_Witness ==
  /\ Len(moveLog) > 0 /\ ~raised
  /\ \E sq \in SlidersOf(board, whiteToMove) :
        \E ms \in {moveFunctions(board[sq[1]][sq[2]][2], board, whiteToMove,
                                 sq[1], sq[2])} :
           /\ Len(ms) >= 3
           /\ \E m \in SeqRange(ms) : m.pieceCaptured # Empty
           /\ \E m \in SeqRange(ms) : m.pieceCaptured = Empty

\* C15: a call of getValidMoves made right after a call that returned
\* returns the same list, element by element, and leaves checkMate and
\* staleMate as the first call left them.
C15_Deterministic ==
  (lastOp = "getValidMoves" /\ ~raised) =>
     \E res \in {getValidMoves(GS)} :
        /\ ~res.raised
        /\ res.moves = returned
        /\ res.gs.checkMate = checkMate
        /\ res.gs.staleMate = staleMate

\* C15 witness: getValidMoves has returned, after some moves, a list from
\* which the filter has removed candidates.
C15_Witness ==
  /\ lastOp = "getValidMoves" /\ ~raised /\ Len(moveLog) > 0
  /\ Len(returned) > 0
  /\ Len(returned) < Len(getAllPossibleMoves(board, whiteToMove))

\* The coordinates a generated move can have: rows and columns 0..7, and the
\* destination row -1 of a white pawn's move from row 0.
GeneratedCoords ==
  {<<sr, sc, er, ec>> : sr \in 0..7, sc \in 0..7, er \in -1..7, ec \in 0..7}

\* The moves at hand in a state: those generated for either side on the
\* board, those of the move log and those of the list last returned.
MovesAtHand ==
  UNION {SeqRange(getAllPossibleMoves(board, side)) :
           side \in {s \in BOOLEAN : ~Raises(board, s)}}
     \cup SeqRange(moveLog) \cup SeqRange(returned)

\* C16: two moves are equal (Move.__eq__) exactly when their origin and
\* destination coordinates are the same, whatever pieceMoved and
\* pieceCaptured are: moveID takes different values on different
\* coordinates.
C16_MoveEqIffSameCoords ==
  /\ Cardinality({Move(<<t[1], t[2]>>, <<t[3], t[4]>>, InitBoard).moveID :
                    t \in GeneratedCoords}) = Cardinality(GeneratedCoords)
  /\ \E hand \in {MovesAtHand} :
        \A m1 \in hand :
           /\ Coords(m1) \in GeneratedCoords
           /\ MoveEq(m1, Move(<<m1.startRow, m1.startCol>>,
                              <<m1.endRow, m1.endCol>>, InitBoard))
           /\ \A m2 \in hand :
                 MoveEq(m1, m2) <=> Coords(m1) = Coords(m2)

\* C16 witness: the moves at hand include one with destination row -1, two
\* with the same destination and different origins, and one whose pieces
\* are not those the starting board has on its coordinates.
C16_Witness ==
  \E hand \in {MovesAtHand} :
     /\ \E m \in hand : m.endRow = -1
     /\ \E m1 \in hand : \E m2 \in hand :
           /\ <<m1.endRow, m1.endCol>> = <<m2.endRow, m2.endCol>>
           /\ <<m1.startRow, m1.startCol>> # <<m2.startRow, m2.startCol>>
     /\ \E m \in hand :
           m # Move(<<m.startRow, m.startCol>>, <<m.endRow, m.endCol>>, InitBoard)

\* C17: a call of getValidMoves leaves the board, the turn flag, both cached
\* king squares and the move log as they were before the call.
C17_QueriesLeaveStateAlone ==
  [][GetValidMoves =>
       /\ board' = board
       /\ whiteToMove' = whiteToMove
       /\ whiteKingLocation' = whiteKingLocation
       /\ blackKingLocation' = blackKingLocation
       /\ moveLog' = moveLog]_vars

\* The place of a move's origin in the scan of getAllPossibleMoves.
OriginIndex(m) == 8 * m.startRow + m.startCol

\* The origins of the list s never go back in the scan order.
ScanOrdered(s) ==
  \A i \in 1..(Len(s) - 1) : OriginIndex(s[i]) <= OriginIndex(s[i + 1])

\* The test of the loop of getValidMoves keeps the candidate m.
Kept(m) == ~inCheck(flip(makeMove(GS, m)))

\* C18: the list of getAllPossibleMoves is ordered by origin in scan order
\* (row 0 to 7, column 0 to 7 within a row), and the list getValidMoves
\* returns is that list without exactly the candidates its test rejects, the
\* others in their order.
C18_ScanOrderKept ==
  (~raised /\ ~Raises(board, whiteToMove)) =>
     \E cands \in {getAllPossibleMoves(board, whiteToMove)} :
        /\ ScanOrdered(cands)
        /\ lastOp = "getValidMoves" =>
              /\ ScanOrdered(returned)
              /\ returned = SelectSeq(cands, Kept)

\* C18 witness: getValidMoves has returned a list from which a candidate
\* between two kept candidates has been removed.
C18_Witness ==
  /\ lastOp = "getValidMoves" /\ ~raised
  /\ \E cands \in {getAllPossibleMoves(board, whiteToMove)} :
        \E i \in 1..Len(cands), j \in 1..Len(cands), k \in 1..Len(cands) :
           /\ i < j /\ j < k
           /\ cands[i] \in SeqRange(returned)
           /\ cands[j] \notin SeqRange(returned)
           /\ cands[k] \in SeqRange(returned)

\* C19: whiteToMove is true exactly when the move log has even length;
\* makeMove appends its move to the log and undoMove on a non-empty log
\* removes the last one.
C19_TurnParity ==
  /\ whiteToMove <=> (Len(moveLog) % 2 = 0)
  /\ ~Raises(board, whiteToMove) =>
        \A m \in SeqRange(getAllPossibleMoves(board, whiteToMove)) :
           makeMove(GS, m).moveLog = Append(moveLog, m)
  /\ moveLog # <<>> =>
        undoMove(GS).moveLog = SubSeq(moveLog, 1, Len(moveLog) - 1)

\* C20: every move generated for the side to move starts on a cell holding
\* a piece of that side, ends on a cell that does not hold a piece of that
\* side, and records as pieceMoved and pieceCaptured what the board holds at
\* its origin and at its destination (the destination read as makeMove will
\* write it, self.board[endRow][endCol]).
C20_GeneratedMovesWellFormed ==
  ~Raises(board, whiteToMove) =>
     \E own \in {IF whiteToMove THEN "w" ELSE "b"} :
        \A m \in SeqRange(getAllPossibleMoves(board, whiteToMove)) :
           /\ m.startRow \in 0..7 /\ m.startCol \in 0..7
           /\ board[m.startRow][m.startCol][1] = own
           /\ At(board, m.endRow, m.endCol)[1] # own
           /\ m.pieceMoved = board[m.startRow][m.startCol]
           /\ m.pieceCaptured = At(board, m.endRow, m.endCol)

\* C20 witness: moves have been made and the generated moves include a
\* capture by a knight or a king.
C20_Witness ==
  /\ Len(moveLog) > 0 /\ ~Raises(board, whiteToMove)
  /\ \E m \in SeqRange(getAllPossibleMoves(board, whiteToMove)) :
        m.pieceMoved[2] \in {"N", "K"} /\ m.pieceCaptured # Empty

====
